---- MODULE Spec2Model ----
(***************************************************************************)
(* Model of task1/robot.py: the telemetry channel (TelemetryClient), the   *)
(* command channel (CommandClient), the maneuvers of Robot and             *)
(* normalize_angle.                                                        *)
(*                                                                         *)
(* Numbers.  A float32 on the wire is modelled as a signed 32-bit          *)
(* fixed-point number: struct.pack("<f") / struct.unpack("<f") become the  *)
(* little-endian split of its 32-bit two's-complement word and the         *)
(* reassembly of that word.  Bytes are the integers 0..255.                *)
(***************************************************************************)
EXTENDS Integers, Sequences, FiniteSets, TLC

\* ------------------------------------------------------------------ bounds
\* Frames (stream mode) or datagrams (datagram mode) the peer sends in a run.
MaxFrames == 2
\* Largest declared range-sample count of a well-formed test frame.
MaxSamples == 2

\* ------------------------------------------------------- program constants
\* recvfrom(65535): the largest datagram read in one call.
MaxDatagram == 65535

VARIABLES
    proto,              \* TelemetryClient.proto: "tcp" | "udp"
    items,              \* the payloads the peer sends, in send order
    stream,             \* tcp: bytes written by the peer and not yet read
    closed,             \* tcp: the peer has closed; every recv returns b""
    dq,                 \* udp: datagrams already taken off the socket
    pc,                 \* where update()/recv_telemetry() stands
    buf,                \* recv_all: buf
    size,               \* recv_all: size
    rets,               \* outcome of every finished recv_telemetry() call
    pose,               \* TelemetryClient.pose
    velocity,           \* TelemetryClient.velocity
    angular_velocity,   \* TelemetryClient.angular_velocity
    lidar_ranges,       \* TelemetryClient.lidar_ranges
    last_update_time,   \* TelemetryClient.last_update_time
    clock,              \* time.time(), a logical clock
    angle,              \* normalize_angle: the argument
    normalized,         \* normalize_angle: the value returned for `angle`
    before,             \* the value returned for angle - 2*pi
    astep,              \* "arg" | "first" | "shifted" | "second": what is computed
    maneuver,           \* Robot: the maneuver called, "turn" | "forward"
    rpc,                \* Robot: where the maneuver stands
    iters,              \* passes of the current while loop made so far
    delta_theta,        \* turn_by_angle2: delta_theta
    start_th,           \* turn_by_angle2: start_th
    target_th,          \* turn_by_angle2: target_th
    error,              \* turn_by_angle2: error of the last iteration
    min_dist,           \* forward_to_the_wall: min_dist of the last iteration
    cmds,               \* every packet send_command has sent, in order
    reads,              \* frames the maneuver has read with telemetry.update()
    exc,                \* the exception that ended the maneuver, or "none"
    standing            \* the robot: the last packet that reached it, which it executes

chanVars == <<proto, items, stream, closed, dq, pc, buf, size, rets, pose,
              velocity, angular_velocity, lidar_ranges, last_update_time, clock>>

angleVars == <<angle, normalized, before, astep>>

robotVars ==
    <<maneuver, rpc, iters, delta_theta, start_th, target_th, error, min_dist, cmds,
      reads, exc, standing>>

\* What the telemetry channel leaves alone.
offChannel == <<angleVars, robotVars>>

vars == <<chanVars, angleVars, robotVars>>

\* ------------------------------------------------------------ byte helpers
Min(a, b) == IF a < b THEN a ELSE b

\* Python data[a:b] on a byte string (0-based, clipped to the length).
Slice(data, a, b) == SubSeq(data, a + 1, Min(b, Len(data)))

\* struct.pack("<I", w)
PackU32(w) ==
    <<w % 256, (w \div 256) % 256, (w \div 65536) % 256, (w \div 16777216) % 256>>

\* struct.unpack("<I", b)[0], b of 4 bytes (every word the model meets is
\* below 2^31)
UnpackU32(b) == b[1] + 256 * b[2] + 65536 * b[3] + 16777216 * b[4]

\* struct.pack("<f", v): the two's-complement word of v, little-endian
\* (\div rounds down and % is never negative, so -1 packs as 255 255 255 255)
PackF32(v) ==
    <<v % 256, (v \div 256) % 256, (v \div 65536) % 256, (v \div 16777216) % 256>>

\* The same read big-endian (">f").
UnpackF32BigEndian(b) ==
    b[4] + 256 * b[3] + 65536 * b[2]
         + 16777216 * (IF b[1] >= 128 THEN b[1] - 256 ELSE b[1])

\* struct.unpack("<f", b)[0], b of 4 bytes: the top byte carries the sign
UnpackF32(b) ==
    b[1] + 256 * b[2] + 65536 * b[3]
         + 16777216 * (IF b[4] >= 128 THEN b[4] - 256 ELSE b[4])

\* struct.unpack("<{n}f", b): n floats out of 4n bytes
UnpackFloats(b, n) == [i \in 1..n |-> UnpackF32(SubSeq(b, 4 * i - 3, 4 * i))]

\* b"WBTG"
Magic == <<87, 66, 84, 71>>

\* A signature check that compares three bytes.
StartsWithMagic3(data) == Len(data) >= 3 /\ SubSeq(data, 1, 3) = SubSeq(Magic, 1, 3)

\* data.startswith(b"WBTG")
StartsWithMagic(data) == Len(data) >= 4 /\ SubSeq(data, 1, 4) = Magic

\* "exactly calcsize bytes": struct.unpack(fmt, b) raises struct.error unless
\* len(b) is the size of fmt (k four-byte fields)
StructFits(b, k) == Len(b) = 4 * k

\* header_size = 4 + 9 * 4
HeaderSize == 4 + 9 * 4

\* A decoder that clips the declared count to the samples present.
DecodeFrameClipped(data) ==
    IF ~StartsWithMagic(data) THEN [kind |-> "ValueError"]
    ELSE IF ~StructFits(Slice(data, 4, HeaderSize), 9) THEN [kind |-> "struct.error"]
    ELSE IF ~StructFits(Slice(data, HeaderSize, HeaderSize + 4), 1)
         THEN [kind |-> "struct.error"]
    ELSE LET h == UnpackFloats(Slice(data, 4, HeaderSize), 9)
             n == UnpackU32(Slice(data, HeaderSize, HeaderSize + 4))
             m == Min(n, (Len(data) - (HeaderSize + 4)) \div 4)
             body == Slice(data, HeaderSize + 4, HeaderSize + 4 + 4 * m)
         IN  [kind |-> "ok",
              pose |-> <<h[1], h[2], h[3]>>,
              velocity |-> <<h[4], h[5], h[6]>>,
              angular_velocity |-> <<h[7], h[8], h[9]>>,
              lidar_ranges |-> UnpackFloats(body, m)]

\* recv_telemetry, from the signature check to the returned dict: the outcome
\* of decoding the payload `data` (a dict, or the exception raised).
DecodeFrame(data) ==
    IF ~StartsWithMagic(data) THEN [kind |-> "ValueError"]
    ELSE IF ~StructFits(Slice(data, 4, HeaderSize), 9) THEN [kind |-> "struct.error"]
    ELSE IF ~StructFits(Slice(data, HeaderSize, HeaderSize + 4), 1)
         THEN [kind |-> "struct.error"]
    ELSE LET h == UnpackFloats(Slice(data, 4, HeaderSize), 9)
             n == UnpackU32(Slice(data, HeaderSize, HeaderSize + 4))
             body == Slice(data, HeaderSize + 4, HeaderSize + 4 + 4 * n)
         IN  IF n > 0 /\ ~StructFits(body, n) THEN [kind |-> "struct.error"]
             ELSE [kind |-> "ok",
                   pose |-> <<h[1], h[2], h[3]>>,
                   velocity |-> <<h[4], h[5], h[6]>>,
                   angular_velocity |-> <<h[7], h[8], h[9]>>,
                   lidar_ranges |-> IF n > 0 THEN UnpackFloats(body, n) ELSE <<>>]

\* ------------------------------------------------------- the sending peer
\* The wire format of one frame: magic, 9 float32, the count, the samples.
EncodeFrame(f) ==
    LET RECURSIVE Floats(_)
        Floats(vs) == IF vs = <<>> THEN <<>>
                      ELSE PackF32(Head(vs)) \o Floats(Tail(vs))
    IN  Magic \o Floats(f.pose \o f.velocity \o f.angular_velocity)
              \o PackU32(Len(f.lidar_ranges)) \o Floats(f.lidar_ranges)

\* Stream transport: the payload behind its 4-byte little-endian length.
Framed(p) == PackU32(Len(p)) \o p

RECURSIVE StreamOf(_)
StreamOf(ps) == IF ps = <<>> THEN <<>> ELSE Framed(Head(ps)) \o StreamOf(Tail(ps))

\* Test frames: nine distinct field values around a base b (negative, zero,
\* more than one byte wide) and n samples.
Bases == {-5, 300}
MkFrame(b, n) ==
    [pose |-> <<b + 1, b + 2, b + 3>>,
     velocity |-> <<b + 4, b + 5, b + 6>>,
     angular_velocity |-> <<b + 7, b + 8, b + 9>>,
     lidar_ranges |-> [i \in 1..n |-> 256 * i + b]]
TestFrames == {MkFrame(b, n) : b \in Bases, n \in 0..MaxSamples}
GoodPayloads == {EncodeFrame(f) : f \in TestFrames}

\* A payload cut to its first k bytes; a payload with byte i changed.
Cut(p, k) == SubSeq(p, 1, Min(k, Len(p)))
Corrupt(p, i) == [p EXCEPT ![i] = (@ + 1) % 256]

\* Every prefix of every well-formed payload, and each with one byte of its
\* signature changed: the payloads a single datagram is drawn from.
CutPayloads == {Cut(p, k) : p \in GoodPayloads, k \in 0..(HeaderSize + 4 + 4 * MaxSamples)}
BadMagicPayloads == UNION {{Corrupt(p, i) : i \in 1..Min(4, Len(p))} : p \in CutPayloads}
AnyPayloads == CutPayloads \cup BadMagicPayloads

\* The payloads a run of several frames is drawn from: one well-formed frame
\* per sample count (the empty sweep with the negative base), and one that
\* is empty, one with a 3-byte signature, one with a wrong signature, one
\* without its count and one a byte short of its samples.
SeqFrames == {MkFrame(IF n = 0 THEN -5 ELSE 300, n) : n \in 0..MaxSamples}
FullFrame == EncodeFrame(MkFrame(300, MaxSamples))
SeqPayloads ==
    {EncodeFrame(f) : f \in SeqFrames}
        \cup {<<>>, Cut(FullFrame, 3), Corrupt(FullFrame, 4),
              Cut(FullFrame, HeaderSize + 3), Cut(FullFrame, Len(FullFrame) - 1)}

RECURSIVE SeqsUpTo(_, _)
SeqsUpTo(S, n) ==
    IF n = 0 THEN {<<>>}
    ELSE LET shorter == SeqsUpTo(S, n - 1)
         IN  shorter \cup {Append(s, x) : s \in {t \in shorter : Len(t) = n - 1}, x \in S}

\* --------------------------------------------------------- TelemetryClient
\* The calls of update() a run makes.
MaxCalls == MaxFrames + 1

\* TelemetryClient.__init__, and what the peer is going to send.
Init ==
    /\ proto \in {"tcp", "udp"}
    /\ items \in (SeqsUpTo(SeqPayloads, MaxFrames) \ {<<>>})
                 \cup (IF proto = "udp" THEN {<<p>> : p \in AnyPayloads} ELSE {})
    /\ stream = IF proto = "tcp" THEN StreamOf(items) ELSE <<>>
    /\ closed = FALSE
    /\ dq = 0
    /\ pc = "idle"
    /\ buf = <<>>
    /\ size = 0
    /\ rets = <<>>
    /\ pose = <<0, 0, 0>>
    /\ velocity = <<0, 0, 0>>
    /\ angular_velocity = <<0, 0, 0>>
    /\ lidar_ranges = <<>>
    /\ last_update_time = 0
    /\ clock = 1
    /\ angle = [k |-> 0, e |-> 0]
    /\ normalized = [k |-> 0, e |-> 0]
    /\ before = [k |-> 0, e |-> 0]
    /\ astep = "arg"
    /\ maneuver = "none" /\ rpc = "idle" /\ iters = 0
    /\ delta_theta = 0 /\ start_th = 0 /\ target_th = 0
    /\ error = 0 /\ min_dist = 0 /\ cmds = <<>> /\ reads = 0 /\ exc = "none"
    /\ standing = <<0, 0>>

\* sock.recv(size - len(buf)): the most bytes one read may return
RecvLimitWhole(sz, b) == sz
RecvLimit(sz, b) == sz - Len(b)

\* recv_all on a zero-byte read: raise ConnectionError
EofReturnsBuf(b) == [raise |-> FALSE, value |-> b]
OnEof(b) == [raise |-> TRUE, value |-> b]

\* An update() that empties lidar_ranges when the receive fails.
FinishClearsRanges(out, eof) ==
    /\ rets' = Append(rets, [out |-> out, eof |-> eof,
                             rd |-> Len(StreamOf(items)) - Len(stream')])
    /\ clock' = clock + 1
    /\ pc' = "idle"
    /\ buf' = <<>>
    /\ size' = 0
    /\ IF out.kind = "ok"
       THEN /\ pose' = out.pose
            /\ velocity' = out.velocity
            /\ angular_velocity' = out.angular_velocity
            /\ lidar_ranges' = out.lidar_ranges
            /\ last_update_time' = clock
       ELSE /\ lidar_ranges' = <<>>
            /\ UNCHANGED <<pose, velocity, angular_velocity, last_update_time>>

\* update(), from the value or exception of recv_telemetry(): the snapshot is
\* replaced and the receive time set only when a dict came back.  `eof` marks
\* a call during which the connection closed.
Finish(out, eof) ==
    /\ rets' = Append(rets, [out |-> out, eof |-> eof,
                             rd |-> Len(StreamOf(items)) - Len(stream')])
    /\ clock' = clock + 1
    /\ pc' = "idle"
    /\ buf' = <<>>
    /\ size' = 0
    /\ IF out.kind = "ok"
       THEN /\ pose' = out.pose
            /\ velocity' = out.velocity
            /\ angular_velocity' = out.angular_velocity
            /\ lidar_ranges' = out.lidar_ranges
            /\ last_update_time' = clock
       ELSE UNCHANGED <<pose, velocity, angular_velocity, lidar_ranges, last_update_time>>

\* A datagram mode that, when a datagram does not decode, takes the next one
\* in the same call.
update_udp_retry ==
    /\ UNCHANGED offChannel
    /\ proto = "udp"
    /\ pc = "idle"
    /\ Len(rets) < MaxCalls
    /\ dq < Len(items)
    /\ UNCHANGED <<proto, items, stream, closed>>
    /\ LET first == DecodeFrame(Slice(items[dq + 1], 0, MaxDatagram))
           again == first.kind # "ok" /\ dq + 1 < Len(items)
       IN  /\ dq' = IF again THEN dq + 2 ELSE dq + 1
           /\ Finish(IF again THEN DecodeFrame(Slice(items[dq + 2], 0, MaxDatagram))
                               ELSE first, FALSE)

\* update() in datagram mode: recvfrom(65535) takes the next datagram whole,
\* and it is decoded.
update_udp ==
    /\ UNCHANGED offChannel
    /\ proto = "udp"
    /\ pc = "idle"
    /\ Len(rets) < MaxCalls
    /\ dq < Len(items)
    /\ dq' = dq + 1
    /\ UNCHANGED <<proto, items, stream, closed>>
    /\ Finish(DecodeFrame(Slice(items[dq + 1], 0, MaxDatagram)), FALSE)

\* update() in stream mode, up to its first read: recv_all(4) starts.
update_tcp ==
    /\ UNCHANGED offChannel
    /\ proto = "tcp"
    /\ pc = "idle"
    /\ Len(rets) < MaxCalls
    /\ pc' = "len"
    /\ buf' = <<>>
    /\ size' = 4
    /\ UNCHANGED <<proto, items, stream, closed, dq, rets, pose, velocity,
                   angular_velocity, lidar_ranges, last_update_time, clock>>

\* A reader that takes the length to count the 4 prefix bytes as well.
AfterRecvAllPrefixCounted(got, eof) ==
    IF pc = "len"
    THEN IF ~StructFits(got, 1)
         THEN Finish([kind |-> "struct.error"], eof)
         ELSE LET sz == UnpackU32(got) - 4
              IN  IF sz <= 0
                  THEN Finish(DecodeFrame(<<>>), eof)
                  ELSE /\ pc' = "data"
                       /\ buf' = <<>>
                       /\ size' = sz
                       /\ UNCHANGED <<rets, pose, velocity, angular_velocity,
                                      lidar_ranges, last_update_time, clock>>
    ELSE Finish(DecodeFrame(got), eof)

\* What follows a completed recv_all: after the prefix, struct.unpack("<I")
\* gives the size and the payload is read (recv_all(0) returns at once);
\* after the payload, the frame is decoded.
AfterRecvAll(got, eof) ==
    IF pc = "len"
    THEN IF ~StructFits(got, 1)
         THEN Finish([kind |-> "struct.error"], eof)
         ELSE LET sz == UnpackU32(got)
              IN  IF sz = 0
                  THEN Finish(DecodeFrame(<<>>), eof)
                  ELSE /\ pc' = "data"
                       /\ buf' = <<>>
                       /\ size' = sz
                       /\ UNCHANGED <<rets, pose, velocity, angular_velocity,
                                      lidar_ranges, last_update_time, clock>>
    ELSE Finish(DecodeFrame(got), eof)

\* One sock.recv inside recv_all returning c >= 1 bytes, and the code up to
\* the next read or to the end of update().
sock_recv ==
    /\ UNCHANGED offChannel
    /\ pc \in {"len", "data"}
    /\ ~closed
    /\ \E c \in 1..Min(RecvLimit(size, buf), Len(stream)) :
          LET got == buf \o SubSeq(stream, 1, c)
          IN  /\ stream' = SubSeq(stream, c + 1, Len(stream))
              /\ IF Len(got) < size
                 THEN /\ buf' = got
                      /\ UNCHANGED <<pc, size, rets, pose, velocity, angular_velocity,
                                     lidar_ranges, last_update_time, clock>>
                 ELSE AfterRecvAll(got, FALSE)
    /\ UNCHANGED <<proto, items, closed, dq>>

\* One sock.recv inside recv_all returning b"": the peer has closed, having
\* sent no more than what was read.
sock_recv_eof ==
    /\ UNCHANGED offChannel
    /\ pc \in {"len", "data"}
    /\ closed' = TRUE
    /\ UNCHANGED <<proto, items, stream, dq>>
    /\ IF OnEof(buf).raise
       THEN Finish([kind |-> "ConnectionError"], TRUE)
       ELSE AfterRecvAll(OnEof(buf).value, TRUE)

Next == update_udp \/ update_tcp \/ sock_recv \/ sock_recv_eof

Spec == Init /\ [][Next]_vars

\* ------------------------------------------------------------------ claims
\* The stream offset at which the i-th frame sent ends.
FrameEnd(i) == Len(StreamOf(SubSeq(items, 1, i)))
\* Bytes read off the connection so far.
Consumed == Len(StreamOf(items)) - Len(stream)

\* C1: in stream mode every call that returns without the connection closing
\* has consumed exactly the 4 + L bytes of its frame, whatever the sizes of
\* the partial reads: the i-th call ends at the end of the i-th frame sent and
\* returns the decoding of that frame's payload, and a call in progress
\* never reads past the end of the frame it is reading.
C1_StreamFraming ==
    proto = "tcp" =>
        /\ \A i \in 1..Len(rets) :
              ~rets[i].eof =>
                  /\ i <= Len(items)
                  /\ rets[i].rd = FrameEnd(i)
                  /\ rets[i].out = DecodeFrame(items[i])
        /\ Consumed <= FrameEnd(Min(Len(rets) + 1, Len(items)))

\* C1 witness: two different back-to-back frames came back from two
\* consecutive calls.
C1_Witness ==
    /\ proto = "tcp"
    /\ Len(rets) = 2
    /\ rets[1].out.kind = "ok" /\ rets[2].out.kind = "ok"
    /\ rets[1].out # rets[2].out
    /\ Len(stream) = 0

\* C2: a call during which the connection closes (a zero-byte read before the
\* 4 prefix bytes or the L payload bytes are in) ends in ConnectionError and
\* returns no frame, whatever bytes were delivered; a signature or decode
\* error is raised only by a call that read its whole frame.
C2_ShortReadIsConnectionError ==
    \A i \in 1..Len(rets) :
        /\ rets[i].eof => rets[i].out = [kind |-> "ConnectionError"]
        /\ (proto = "tcp" /\ rets[i].out.kind \in {"ValueError", "struct.error"})
              => rets[i].rd = FrameEnd(i)

\* C2 witness: the connection closed after the 4 signature bytes of a payload
\* with a wrong signature had been delivered, and the call failed with
\* ConnectionError.
C2_Witness ==
    \E i \in 1..Len(rets) :
        /\ rets[i].eof
        /\ i <= Len(items)
        /\ Len(items[i]) > 4
        /\ SubSeq(items[i], 1, 4) # <<87, 66, 84, 71>>
        /\ rets[i].rd >= FrameEnd(i - 1) + 8
        /\ rets[i].out.kind = "ConnectionError"

\* C3: a payload of any length whose first 4 bytes are not 'WBTG' (payloads of
\* 0 to 3 bytes included), received whole in either mode, makes the call
\* fail with the signature error, and nothing of the payload is returned.
C3_BadSignatureRejected ==
    \A i \in 1..Len(rets) :
        (/\ ~rets[i].eof
         /\ \/ Len(items[i]) < 4
            \/ \E j \in 1..4 : items[i][j] # <<87, 66, 84, 71>>[j])
            => rets[i].out = [kind |-> "ValueError"]

\* C3 witness: in stream mode a payload shorter than the signature and then a
\* whole frame with one signature byte wrong were both rejected.
C3_Witness ==
    /\ proto = "tcp"
    /\ Len(rets) = 2
    /\ Len(items) = 2
    /\ Len(items[1]) < 4
    /\ Len(items[2]) >= 44
    /\ rets[1].out.kind = "ValueError"
    /\ rets[2].out.kind = "ValueError"

\* C4: the payload encoded from a frame (9 values, count n, n samples, for
\* every n from 0 up) decodes to that frame: pose = (x, y, heading), velocity
\* = (vx, vy, yaw rate), angular velocity = (wx, wy, wz) and the n samples in
\* order.
C4_DecodeInvertsEncode ==
    \A i \in 1..Len(rets) :
        ~rets[i].eof =>
            \A f \in TestFrames :
                items[i] = EncodeFrame(f) =>
                    rets[i].out = [kind |-> "ok",
                                   pose |-> f.pose,
                                   velocity |-> f.velocity,
                                   angular_velocity |-> f.angular_velocity,
                                   lidar_ranges |-> f.lidar_ranges]

\* C4 witness: a frame with no samples and a frame with the most samples and
\* negative values were both decoded.
C4_Witness ==
    /\ Len(rets) = 2
    /\ rets[1].out.kind = "ok" /\ rets[2].out.kind = "ok"
    /\ Len(rets[1].out.lidar_ranges) = MaxSamples
    /\ rets[2].out.lidar_ranges = <<>>
    /\ \E j \in 1..3 : rets[1].out.pose[j] # rets[2].out.pose[j]
    /\ \E r \in {rets[1].out, rets[2].out} : r.pose[1] < 0

\* C5: a payload that starts with the signature and is shorter than 44 + 4n
\* bytes for its declared count n (or too short to hold the 9 values or the
\* count) is a decode error: no frame is returned.
C5_ShortPayloadIsError ==
    \A i \in 1..Len(rets) :
        (/\ ~rets[i].eof
         /\ Len(items[i]) >= 4
         /\ SubSeq(items[i], 1, 4) = <<87, 66, 84, 71>>
         /\ \/ Len(items[i]) < 44
            \/ Len(items[i]) < 44 + 4 * (items[i][41] + 256 * items[i][42]
                                          + 65536 * items[i][43]
                                          + 16777216 * items[i][44]))
            => rets[i].out = [kind |-> "struct.error"]

\* C5 witness: a payload holding the header, a count n >= 2 and fewer than n
\* whole samples was refused.
C5_Witness ==
    \E i \in 1..Len(rets) :
        /\ ~rets[i].eof
        /\ Len(items[i]) >= 48
        /\ items[i][41] >= 2
        /\ rets[i].out.kind = "struct.error"

\* --------------------------------------------------------- normalize_angle
(***************************************************************************)
(* Angles are doubles.  An angle is modelled as [k, e]: k eighths of a     *)
(* turn (k * pi/4) plus e times d, where d = pi - math.pi > 0 is the       *)
(* distance between pi and the double math.pi, far smaller than pi/4.      *)
(* So math.pi is [k |-> 4, e |-> -1] and -math.pi is [k |-> -4, e |-> 1]. *)
(* Apart from 0, no multiple of pi/4 is a double: e = 0 only for k = 0.    *)
(* A value of sin or cos is [m, r]: m thousandths plus r times d.          *)
(***************************************************************************)
\* Largest |k| of an argument, and largest |e|.
MaxAngle == 9
MaxEps == 2

\* math.sin and math.cos at k * pi/4, k = 0..7, in thousandths
SinT == <<0, 707, 1000, 707, 0, -707, -1000, -707>>
CosT == <<1000, 707, 0, -707, -1000, -707, 0, 707>>
Turn == Len(SinT)
HalfTurn == Turn \div 2

Sgn(x) == IF x > 0 THEN 1 ELSE IF x < 0 THEN -1 ELSE 0

\* math.pi, and 2 * math.pi
MathPi == [k |-> HalfTurn, e |-> -1]
TwoPi == [k |-> Turn, e |-> -2]
Neg(a) == [k |-> -a.k, e |-> -a.e]
Plus(a, b) == [k |-> a.k + b.k, e |-> a.e + b.e]
\* The doubles next to a sum: an exact multiple of pi/4 other than 0 is no
\* double, and rounds to a neighbour on either side.
Rounded(a) ==
    IF a.e = 0 /\ a.k # 0 THEN {[k |-> a.k, e |-> -1], [k |-> a.k, e |-> 1]} ELSE {a}
\* a < b and a <= b on doubles
Less(a, b) == a.k < b.k \/ (a.k = b.k /\ a.e < b.e)
LessEq(a, b) == a = b \/ Less(a, b)

\* math.sin(a): sin at the grid point, moved by e * d * cos
math_sin(a) ==
    LET r == a.k % Turn IN [m |-> SinT[r + 1], r |-> a.e * Sgn(CosT[r + 1])]

\* math.cos(a): cos at the grid point, moved by -e * d * sin
math_cos(a) ==
    LET r == a.k % Turn IN [m |-> CosT[r + 1], r |-> -a.e * Sgn(SinT[r + 1])]

\* math.atan2(y, x): the angle in [-pi, pi] of the point (x, y).  On the
\* negative x axis the sign of y decides: atan2(+0.0 or +tiny, -1) is pi,
\* atan2(-tiny, -1) is -pi.
math_atan2(y, x) ==
    LET r == CHOOSE q \in 0..(Turn - 1) : SinT[q + 1] = y.m /\ CosT[q + 1] = x.m
        e == IF x.m # 0 THEN y.r * Sgn(x.m) ELSE -x.r * Sgn(y.m)
    IN  IF r < HalfTurn THEN [k |-> r, e |-> e]
        ELSE IF r > HalfTurn THEN [k |-> r - Turn, e |-> e]
        ELSE IF y.r >= 0 THEN [k |-> HalfTurn, e |-> e]
        ELSE [k |-> -HalfTurn, e |-> e]

\* A normalisation by remainder: angle % (2 * pi), into [0, 2*pi).
normalize_angle_mod(a) == [k |-> a.k % Turn, e |-> a.e]

\* normalize_angle(angle)
normalize_angle(a) == math_atan2(math_sin(a), math_cos(a))

\* The doubles normalize_angle is tried on.
Angles ==
    {[k |-> 0, e |-> 0]}
        \cup {[k |-> k, e |-> e] : k \in (-MaxAngle)..MaxAngle,
                                   e \in ((-MaxEps)..MaxEps) \ {0}}

ChannelIdle ==
    /\ proto = "udp" /\ items = <<>> /\ stream = <<>> /\ closed = FALSE
    /\ dq = 0 /\ pc = "idle" /\ buf = <<>> /\ size = 0 /\ rets = <<>>
    /\ pose = <<0, 0, 0>> /\ velocity = <<0, 0, 0>>
    /\ angular_velocity = <<0, 0, 0>> /\ lidar_ranges = <<>>
    /\ last_update_time = 0 /\ clock = 1

RobotIdle ==
    /\ maneuver = "none" /\ rpc = "idle" /\ iters = 0
    /\ delta_theta = 0 /\ start_th = 0 /\ target_th = 0
    /\ error = 0 /\ min_dist = 0 /\ cmds = <<>> /\ reads = 0 /\ exc = "none"
    /\ standing = <<0, 0>>

AngleInit ==
    /\ ChannelIdle
    /\ RobotIdle
    /\ angle \in Angles
    /\ normalized = [k |-> 0, e |-> 0]
    /\ before = [k |-> 0, e |-> 0]
    /\ astep = "arg"

\* normalized = normalize_angle(angle)
normalize_call ==
    /\ astep \in {"arg", "shifted"}
    /\ normalized' = normalize_angle(angle)
    /\ astep' = IF astep = "arg" THEN "first" ELSE "second"
    /\ UNCHANGED <<angle, before, chanVars, robotVars>>

\* angle = angle + 2 * math.pi, once the first value is in
add_two_pi ==
    /\ astep = "first"
    /\ before' = normalized
    /\ angle' \in Rounded(Plus(angle, TwoPi))
    /\ astep' = "shifted"
    /\ UNCHANGED <<normalized, chanVars, robotVars>>

AngleNext == normalize_call \/ add_two_pi

AngleSpec == AngleInit /\ [][AngleNext]_vars

\* C6 as claimed: every value returned lies in (-pi, pi], so -pi is never
\* returned; normalize(a + 2*pi) is the same angle as normalize(a);
\* normalize(0) = 0.
C6_HalfOpenRange ==
    astep \in {"first", "second"} =>
        /\ Less(Neg(MathPi), normalized) /\ LessEq(normalized, MathPi)
        /\ astep = "second" => normalized.k = before.k
        /\ angle = [k |-> 0, e |-> 0] => normalized = angle

\* C6 amended: every value returned lies in the closed range [-pi, pi] and
\* is the argument's direction (the argument reduced by whole turns);
\* normalize(a + 2*pi) and normalize(a) are the same direction, equal except
\* that at an odd multiple of pi one may be pi and the other -pi;
\* normalize(0) = 0.
C6_ClosedRange ==
    astep \in {"first", "second"} =>
        /\ LessEq(Neg(MathPi), normalized) /\ LessEq(normalized, MathPi)
        /\ (normalized.k - angle.k) % Turn = 0
        /\ astep = "second" =>
              \/ normalized.k = before.k
              \/ {normalized.k, before.k} = {HalfTurn, -HalfTurn}
        /\ angle = [k |-> 0, e |-> 0] => normalized = angle

\* C6 witness: -math.pi was normalised to -math.pi, and then -math.pi + 2*pi
\* to math.pi.
C6_Witness ==
    /\ astep = "second"
    /\ before = Neg(MathPi)
    /\ angle = MathPi
    /\ normalized = MathPi

\* ------------------------------------------------------------------- Robot
(***************************************************************************)
(* Units.  Angles: 0.01 rad; angular speed: 0.01 rad/s.  The velocities of *)
(* a frame: 0.001 m/s and 0.001 rad/s.  Distances: centimetres.  Forward   *)
(* speed: 1/1200 m/s, in which the ramp is exact at every centimetre (0.5  *)
(* m/s is 600, 0.25 m/s is 300).                                           *)
(***************************************************************************)
\* Frames one maneuver reads, and the longest sweep of a frame.
MaxReads == 4
MaxSweep == 2

\* forward_to_the_wall
MAX_SPEED == 600
TARGET_STOP == 40
RampStart == 100
LidarMin == 10
LidarMax == 2000
BrakeBurst == 30
\* float('inf'): above every distance
Infinity == 1000000
\* turn_by_angle2
VelEps == 10
Converged == 8
FastAbove == 30
MidAbove == 10
FastRate == 60
MidRate == 30
SlowRate == 12
\* math.pi and 2 * math.pi in 0.01 rad
PiC == 314
TurnC == 2 * PiC

Abs(x) == IF x < 0 THEN -x ELSE x
Max(a, b) == IF a > b THEN a ELSE b

\* An error left as target_th - current_th, not reduced.
normalize_angle_raw(x) == {x}

\* normalize_angle on 0.01 rad: the argument reduced by whole turns, every
\* value the doubles can give (at an odd multiple of pi, pi or -pi: see
\* math_atan2).
normalize_angle_c(x) ==
    LET r == x % TurnC
    IN  IF r < PiC THEN {r} ELSE IF r > PiC THEN {r - TurnC} ELSE {PiC, -PiC}

\* A packet with its two fields in the other order.
send_command_swapped(log, v, w) == Append(log, <<w, v>>)

\* CommandClient.send_command(v, w): one datagram, nothing comes back
send_command(log, v, w) == Append(log, <<v, w>>)

\* range(30): send_command(0.0, 0.0) thirty times
RECURSIVE Burst(_, _)
Burst(log, n) == IF n = 0 THEN log ELSE Burst(send_command(log, 0, 0), n - 1)

\* valid_ranges = [r for r in lidar_ranges if 0.1 <= r <= 20.0]
ValidRangesClosed(rs) == SelectSeq(rs, LAMBDA r : LidarMin <= r /\ r <= LidarMax)

\* valid_ranges = [r for r in lidar_ranges if 0.1 < r < 20.0]
ValidRanges(rs) == SelectSeq(rs, LAMBDA r : LidarMin < r /\ r < LidarMax)

RECURSIVE MinOf(_)
MinOf(rs) == IF Len(rs) = 1 THEN rs[1] ELSE Min(rs[1], MinOf(Tail(rs)))

\* min_dist = min(valid_ranges) if valid_ranges else float('inf')
MinDist(rs) == IF ValidRanges(rs) # <<>> THEN MinOf(ValidRanges(rs)) ELSE Infinity

\* A ramp that starts at 0 instead of TARGET_STOP.
ForwardSpeedFromZero(d) ==
    IF d <= TARGET_STOP THEN 0
    ELSE IF d < RampStart THEN Max(0, (MAX_SPEED * d) \div RampStart)
    ELSE MAX_SPEED

\* speed, from min_dist
ForwardSpeed(d) ==
    IF d <= TARGET_STOP THEN 0
    ELSE IF d < RampStart
         THEN Max(0, (MAX_SPEED * (d - TARGET_STOP)) \div (RampStart - TARGET_STOP))
    ELSE MAX_SPEED

\* A test that lets min_dist = TARGET_STOP through.
StopNowStrict(d) == d < TARGET_STOP

\* if min_dist <= TARGET_STOP: break
StopNow(d) == d <= TARGET_STOP

\* A schedule that turns away from the target.
TurnRateAway(e) ==
    IF Abs(e) > FastAbove THEN FastRate * (IF e > 0 THEN -1 ELSE 1)
    ELSE IF Abs(e) > MidAbove THEN MidRate * (IF e > 0 THEN -1 ELSE 1)
    ELSE SlowRate * (IF e > 0 THEN -1 ELSE 1)

\* A schedule whose middle tier starts at the convergence threshold.
TurnRateTwoTier(e) ==
    IF Abs(e) > FastAbove THEN FastRate * (IF e > 0 THEN 1 ELSE -1)
    ELSE IF Abs(e) > Converged THEN MidRate * (IF e > 0 THEN 1 ELSE -1)
    ELSE SlowRate * (IF e > 0 THEN 1 ELSE -1)

\* w, from error
TurnRate(e) ==
    IF Abs(e) > FastAbove THEN FastRate * (IF e > 0 THEN 1 ELSE -1)
    ELSE IF Abs(e) > MidAbove THEN MidRate * (IF e > 0 THEN 1 ELSE -1)
    ELSE SlowRate * (IF e > 0 THEN 1 ELSE -1)

\* A test that lets a component of exactly 0.01 through.
SettledLoose(v) == Abs(v[1]) <= VelEps /\ Abs(v[2]) <= VelEps /\ Abs(v[3]) <= VelEps

\* abs(vx) < 0.01 and abs(vy) < 0.01 and abs(vth) < 0.01
Settled(v) == Abs(v[1]) < VelEps /\ Abs(v[2]) < VelEps /\ Abs(v[3]) < VelEps

\* The frames offered to a maneuver.  Each phase reads one group of fields;
\* the frames offered in a phase vary that group.
VelCases ==
    {<<0, 0, 0>>, <<5, 5, 5>>, <<9, -9, 9>>, <<10, 0, 0>>, <<0, -10, 0>>,
     <<0, 0, 10>>, <<0, 0, -11>>, <<20, 20, 20>>}
StartHeadings == {0, 250, -314}
Deltas == {314, 126, -157}
ErrCases == {0, 7, -7, 8, -8, 10, -10, 11, 30, -30, 31, -31, 313, 314}
SampleVals == {10, 39, 40, 41, 70, 100, 2000}
Sweeps == SeqsUpTo(SampleVals, MaxSweep)

FrameOf(h, v, rs) ==
    [pose |-> <<0, 0, h>>, velocity |-> v, angular_velocity |-> <<0, 0, v[3]>>,
     lidar_ranges |-> rs]
SettleFrames == {FrameOf(0, v, <<>>) : v \in VelCases}
StartFrames == {FrameOf(h, <<0, 0, 0>>, <<>>) : h \in StartHeadings}
TurnFrames(target) ==
    {FrameOf(target - e - m * TurnC, <<0, 0, 0>>, <<>>) : e \in ErrCases, m \in {0, 1}}
ForwardFrames == {FrameOf(0, <<0, 0, 0>>, rs) : rs \in Sweeps}

RobotInit ==
    /\ ChannelIdle
    /\ RobotIdle
    /\ angle = [k |-> 0, e |-> 0]
    /\ normalized = [k |-> 0, e |-> 0]
    /\ before = [k |-> 0, e |-> 0]
    /\ astep = "arg"

\* telemetry.update() returning with frame f decoded
Update(f) ==
    /\ reads < MaxReads
    /\ reads' = reads + 1
    /\ pose' = f.pose
    /\ velocity' = f.velocity
    /\ angular_velocity' = f.angular_velocity
    /\ lidar_ranges' = f.lidar_ranges
    /\ last_update_time' = clock
    /\ clock' = clock + 1
    /\ UNCHANGED <<proto, items, stream, closed, dq, pc, buf, size, rets, angleVars>>

\* turn_by_angle2(delta_theta), up to the first telemetry.update()
call_turn ==
    /\ rpc = "idle"
    /\ \E d \in Deltas : delta_theta' = d
    /\ cmds' = send_command(cmds, 0, 0)
    /\ standing' = <<0, 0>>
    /\ maneuver' = "turn"
    /\ rpc' = "settle"
    /\ UNCHANGED <<iters, start_th, target_th, error, min_dist, reads, exc, chanVars,
                   angleVars>>

\* One pass of the settling loop: update, send (0, 0), test the velocities.
settle_step ==
    /\ rpc = "settle"
    /\ \E f \in SettleFrames :
          /\ Update(f)
          /\ cmds' = send_command(cmds, 0, 0)
          /\ standing' = <<0, 0>>
          /\ rpc' = IF Settled(f.velocity) THEN "capture" ELSE "settle"
    /\ iters' = iters + 1
    /\ UNCHANGED <<maneuver, delta_theta, start_th, target_th, error, min_dist, exc>>

\* start_th taken from the frame the settling loop ended on, with no
\* telemetry.update() of its own.
capture_step_stale ==
    /\ rpc = "capture"
    /\ start_th' = pose[3]
    /\ target_th' = pose[3] + delta_theta
    /\ rpc' = "turn"
    /\ iters' = 0
    /\ UNCHANGED <<maneuver, delta_theta, error, min_dist, cmds, reads, exc, standing,
                   chanVars, angleVars>>

\* start_th and target_th, from one more frame
capture_step ==
    /\ rpc = "capture"
    /\ \E f \in StartFrames :
          /\ Update(f)
          /\ start_th' = f.pose[3]
          /\ target_th' = f.pose[3] + delta_theta
    /\ rpc' = "turn"
    /\ iters' = 0
    /\ UNCHANGED <<maneuver, delta_theta, error, min_dist, cmds, exc, standing>>

\* One pass of the turning loop; on convergence the final send and return.
turn_step ==
    /\ rpc = "turn"
    /\ \E f \in TurnFrames(target_th) :
          /\ Update(f)
          /\ \E e \in normalize_angle_c(target_th - f.pose[3]) :
                /\ error' = e
                /\ IF Abs(e) < Converged
                   THEN /\ cmds' = send_command(cmds, 0, 0)
                        /\ standing' = <<0, 0>>
                        /\ rpc' = "done"
                   ELSE /\ cmds' = send_command(cmds, 0, TurnRate(e))
                        /\ standing' = <<0, TurnRate(e)>>
                        /\ rpc' = "turn"
    /\ iters' = iters + 1
    /\ UNCHANGED <<maneuver, delta_theta, start_th, target_th, min_dist, exc>>

\* forward_to_the_wall(), up to the first telemetry.update()
call_forward ==
    /\ rpc = "idle"
    /\ maneuver' = "forward"
    /\ rpc' = "forward"
    /\ UNCHANGED <<iters, delta_theta, start_th, target_th, error, min_dist, cmds, reads,
                   exc, standing, chanVars, angleVars>>

\* One pass of the approach loop; on min_dist <= TARGET_STOP the thirty
\* (0, 0) and return.
forward_step ==
    /\ rpc = "forward"
    /\ \E f \in ForwardFrames :
          /\ Update(f)
          /\ LET d == MinDist(f.lidar_ranges)
                 sent == send_command(cmds, ForwardSpeed(d), 0)
             IN  /\ min_dist' = d
                 /\ IF StopNow(d)
                    THEN /\ cmds' = Burst(sent, BrakeBurst)
                         /\ standing' = <<0, 0>>
                         /\ rpc' = "done"
                    ELSE /\ cmds' = sent
                         /\ standing' = <<ForwardSpeed(d), 0>>
                         /\ rpc' = "forward"
    /\ iters' = iters + 1
    /\ UNCHANGED <<maneuver, delta_theta, start_th, target_th, error, exc>>

\* A maneuver that catches the exception, stops the robot and raises again.
update_raises_stop ==
    /\ rpc \in {"settle", "capture", "turn", "forward"}
    /\ reads < MaxReads
    /\ \E x \in {"ValueError", "ConnectionError", "struct.error"} : exc' = x
    /\ rpc' = "raised"
    /\ cmds' = send_command(cmds, 0, 0)
    /\ standing' = <<0, 0>>
    /\ UNCHANGED <<maneuver, iters, delta_theta, start_th, target_th, error, min_dist,
                   reads, chanVars, angleVars>>

\* telemetry.update() raising: nothing catches it, the maneuver ends there.
update_raises ==
    /\ rpc \in {"settle", "capture", "turn", "forward"}
    /\ reads < MaxReads
    /\ \E x \in {"ValueError", "ConnectionError", "struct.error"} : exc' = x
    /\ rpc' = "raised"
    /\ UNCHANGED <<maneuver, iters, delta_theta, start_th, target_th, error, min_dist,
                   cmds, reads, standing, chanVars, angleVars>>

RobotNext ==
    \/ call_turn \/ settle_step \/ capture_step \/ turn_step
    \/ call_forward \/ forward_step \/ update_raises

RobotSpec == RobotInit /\ [][RobotNext]_vars

\* Distances (cm) over which the ramp's monotonicity is checked point by point.
DistRange == 110

\* C7: the forward speed sent in an iteration of the approach loop depends on
\* that iteration's min_dist alone: 0 at or below 0.4 m, 0.5 m/s at or
\* above 1.0 m, 0.5 * (min_dist - 0.4) / 0.6 in between (0.25 m/s at 0.7 m);
\* it is never below 0 or above 0.5 m/s, the angular part is 0, and the
\* speed does not decrease as min_dist grows.
C7_RampSpeed ==
    (maneuver = "forward" /\ iters >= 1 /\ rpc \in {"forward", "done"}) =>
        LET c == IF rpc = "done" THEN cmds[Len(cmds) - 30] ELSE cmds[Len(cmds)]
        IN  /\ c[2] = 0
            /\ 0 <= c[1] /\ c[1] <= 600
            /\ min_dist <= 40 => c[1] = 0
            /\ min_dist >= 100 => c[1] = 600
            /\ (40 < min_dist /\ min_dist < 100) => 60 * c[1] = 600 * (min_dist - 40)
            /\ min_dist = 70 => c[1] = 300
            /\ \A d \in 0..DistRange : ForwardSpeed(d) <= ForwardSpeed(d + 1)
            /\ ForwardSpeed(DistRange + 1) <= ForwardSpeed(Infinity)

\* C7 witness: an iteration with min_dist = 0.7 m sent 0.25 m/s after an
\* iteration at full speed.
C7_Witness ==
    /\ maneuver = "forward" /\ rpc = "forward" /\ iters = 2
    /\ min_dist = 70
    /\ cmds = <<(<<600, 0>>), (<<300, 0>>)>>

\* C8: the approach loop is left in the first iteration whose min_dist is at
\* or below 0.4 m and in no earlier one: while it loops every command sent had
\* a positive speed; when it has returned, the stop frame was the last frame
\* read, its iteration sent (0, 0), exactly 30 more (0, 0) followed, and the
\* commands before it had a positive speed.  So when the first frame is the
\* stop frame every command is (0, 0).
C8_StopAndBrake ==
    maneuver = "forward" =>
        /\ rpc = "forward" =>
              /\ Len(cmds) = reads /\ iters = reads
              /\ iters >= 1 => min_dist > 40
              /\ \A i \in 1..Len(cmds) : cmds[i][1] > 0
        /\ rpc = "done" =>
              /\ min_dist <= 40
              /\ iters = reads
              /\ Len(cmds) = reads + 30
              /\ \A i \in 1..Len(cmds) :
                    IF i < reads THEN cmds[i][1] > 0 ELSE cmds[i] = <<0, 0>>
              /\ reads = 1 => \A i \in 1..Len(cmds) : cmds[i] = <<0, 0>>

\* C8 witness: the loop was left on its third frame, at 0.39 m.
C8_Witness ==
    /\ maneuver = "forward" /\ rpc = "done"
    /\ reads = 3
    /\ min_dist = 39
    /\ Len(cmds) = 33
    /\ cmds[2][1] > 0 /\ cmds[3] = <<0, 0>> /\ cmds[33] = <<0, 0>>

\* C9: samples outside the open interval (0.1 m, 20 m), the two boundary
\* values included, do not count: min_dist is the least sample strictly
\* inside, and with no such sample (an empty sweep, or only invalid samples)
\* min_dist is +infinity, the iteration sends full speed and the loop goes on.
C9_InvalidSamplesIgnored ==
    (maneuver = "forward" /\ iters >= 1 /\ rpc \in {"forward", "done"}) =>
        LET valid == {i \in 1..Len(lidar_ranges) :
                         10 < lidar_ranges[i] /\ lidar_ranges[i] < 2000}
        IN  IF valid = {}
            THEN /\ min_dist = Infinity
                 /\ rpc = "forward"
                 /\ cmds[Len(cmds)] = <<600, 0>>
            ELSE /\ \E i \in valid : min_dist = lidar_ranges[i]
                 /\ \A i \in valid : min_dist <= lidar_ranges[i]

\* C9 witness: a sweep holding only the two boundary values gave +infinity
\* and full speed.
C9_Witness ==
    /\ maneuver = "forward" /\ rpc = "forward"
    /\ lidar_ranges = <<10, 2000>>
    /\ min_dist = Infinity
    /\ cmds[Len(cmds)] = <<600, 0>>

\* C10: an iteration of the turning loop that has not converged (|error| >=
\* 0.08) sends (0, w) with |w| = 0.6 for |error| > 0.3, 0.3 for 0.1 < |error|
\* <= 0.3 and 0.12 for 0.08 <= |error| <= 0.1, w having the sign of error,
\* where error is target - heading reduced to [-pi, pi]; so |w| does not
\* decrease as |error| grows.
C10_TurnTiers ==
    (maneuver = "turn" /\ rpc = "turn" /\ iters >= 1) =>
        LET c == cmds[Len(cmds)]
            a == IF error < 0 THEN -error ELSE error
        IN  /\ (error - (target_th - pose[3])) % 628 = 0
            /\ 8 <= a /\ a <= 314
            /\ c[1] = 0
            /\ a > 30 => c[2] \in {60, -60}
            /\ (10 < a /\ a <= 30) => c[2] \in {30, -30}
            /\ a <= 10 => c[2] \in {12, -12}
            /\ (error > 0) = (c[2] > 0)
            /\ \A e \in 8..313 : Abs(TurnRate(e)) <= Abs(TurnRate(e + 1))
            /\ \A e \in 8..314 : TurnRate(-e) = -TurnRate(e)

\* C10 witness: a fast turn to the right was followed by the slow tier at
\* |error| = 0.1.
C10_Witness ==
    /\ maneuver = "turn" /\ rpc = "turn" /\ iters = 2
    /\ error = -10
    /\ cmds[Len(cmds) - 1] = <<0, 60>>
    /\ cmds[Len(cmds)] = <<0, -12>>

\* C11: a turn returns only on a frame whose heading is within 0.08 rad of
\* target = start_th + delta_theta (not reduced), start_th being the heading
\* of the frame read after settling; it returns on the first such frame of
\* the loop (after every earlier frame it is still looping), no (0, w) is
\* sent for that frame (frames of the loop: iters, turning commands: iters -
\* 1) and the last command, which stands, is (0, 0).
C11_ReturnsOnConvergence ==
    maneuver = "turn" =>
        LET r == (target_th - pose[3]) % 628
            near == r < 8 \/ r > 620
            n == Len(cmds)
        IN  /\ rpc \in {"turn", "done"} => target_th = start_th + delta_theta
            /\ (rpc = "turn" /\ iters = 0) => start_th = pose[3]
            /\ (rpc = "turn" /\ iters >= 1) => ~near
            /\ rpc = "done" =>
                  /\ near
                  /\ iters >= 1 /\ n = reads
                  /\ cmds[n] = <<0, 0>> /\ standing = <<0, 0>>
                  /\ \A i \in 1..(n - iters) : cmds[i] = <<0, 0>>
                  /\ \A i \in (n - iters + 1)..(n - 1) :
                        cmds[i][1] = 0 /\ cmds[i][2] # 0

\* C11 witness: from heading 2.5 a turn by pi (target 5.64, past pi) read a
\* frame 0.31 short of the target, sent (0, 0.6), read a frame 0.07 past it
\* and returned with (0, 0).
C11_Witness ==
    /\ maneuver = "turn" /\ rpc = "done"
    /\ start_th = 250 /\ delta_theta = 314 /\ target_th = 564
    /\ iters = 2 /\ reads = 4
    /\ error = -7
    /\ cmds = <<(<<0, 0>>), (<<0, 0>>), (<<0, 60>>), (<<0, 0>>)>>

\* C12: the settling loop is left on the first frame whose |vx|, |vy| and
\* |yaw rate| are all strictly below 0.01 and on no earlier one: after each of
\* its frames it is still looping exactly when some component of that frame
\* is at or above 0.01, so it has read exactly k frames when the k-th is the
\* first to pass; every command sent up to then, one before the loop and one
\* per frame, is (0, 0).
C12_SettleOnFirstStillFrame ==
    (maneuver = "turn" /\ rpc \in {"settle", "capture"}) =>
        LET still == \A j \in 1..3 : -10 < velocity[j] /\ velocity[j] < 10
        IN  /\ reads = iters
            /\ Len(cmds) = iters + 1
            /\ \A i \in 1..Len(cmds) : cmds[i] = <<0, 0>>
            /\ (rpc = "settle" /\ iters >= 1) => ~still
            /\ rpc = "capture" => (iters >= 1 /\ still)

\* C12 witness: two frames did not pass and the third, 0.005 on every axis,
\* did: three frames read, four (0, 0) sent.
C12_Witness ==
    /\ maneuver = "turn" /\ rpc = "capture"
    /\ iters = 3 /\ reads = 3
    /\ velocity = <<5, 5, 5>>
    /\ Len(cmds) = 4

\* C13: a telemetry.update() that raises, in the settling loop, at the start
\* frame, in the turning loop or in the approach loop, ends the maneuver
\* there with that error: the step that raises sends nothing, reads no frame
\* and leaves the snapshot and the standing command as they were, and after
\* it nothing more is read or sent (no retry, no (0, 0)).
C13_FailFast ==
    [][/\ exc' # exc =>
            /\ exc = "none"
            /\ exc' \in {"ValueError", "ConnectionError", "struct.error"}
            /\ rpc \in {"settle", "capture", "turn", "forward"}
            /\ rpc' = "raised"
            /\ cmds' = cmds /\ standing' = standing /\ reads' = reads
            /\ iters' = iters
            /\ pose' = pose /\ velocity' = velocity /\ lidar_ranges' = lidar_ranges
       /\ (exc # "none" \/ rpc = "raised") =>
            /\ cmds' = cmds /\ standing' = standing /\ reads' = reads
            /\ rpc' = rpc /\ exc' = exc]_vars

\* C13 witness: the second frame of the turning loop failed with
\* ConnectionError after (0, 0.6) had been sent; (0, 0.6) is the last command
\* and stands.
C13_Witness ==
    /\ maneuver = "turn" /\ rpc = "raised" /\ exc = "ConnectionError"
    /\ iters = 1 /\ reads = 3
    /\ cmds = <<(<<0, 0>>), (<<0, 0>>), (<<0, 60>>)>>
    /\ standing = <<0, 60>>

\* The packets of `log` that reach the robot when the i-th is lost, and the
\* command the robot is left executing then (datagrams are not reordered
\* here; before any packet it stands still).
Delivered(log, i) == SubSeq(log, 1, i - 1) \o SubSeq(log, i + 1, Len(log))
LeftExecuting(log, i) ==
    IF Delivered(log, i) = <<>> THEN <<0, 0>>
    ELSE Delivered(log, i)[Len(Delivered(log, i))]

\* C14: whichever single command datagram of a maneuver is lost, once the
\* maneuver (turn or approach) has returned the robot is left executing
\* (0, 0): the stop reaches it through another send.
C14_SingleLossTolerated ==
    (maneuver \in {"turn", "forward"} /\ rpc = "done") =>
        \A i \in 1..Len(cmds) : LeftExecuting(cmds, i) = <<0, 0>>

\* C15: in a turn, up to and including the frame that ends the settling loop
\* only (0, 0) has been sent and start_th and target_th are not yet set; that
\* frame is still on all three axes; start_th is the heading of one more
\* frame, read after it; and every iteration of the turning loop reads a
\* frame of its own (frames read = settling frames + 1 + iterations, one
\* command per iteration) and computes its error from the heading of that
\* frame.
C15_SettleBeforeAlign ==
    maneuver = "turn" =>
        LET n == Len(cmds)
            still == \A j \in 1..3 : -10 < velocity[j] /\ velocity[j] < 10
        IN  /\ rpc \in {"settle", "capture"} =>
                  /\ \A i \in 1..n : cmds[i] = <<0, 0>>
                  /\ start_th = 0 /\ target_th = 0
                  /\ n = reads + 1
            /\ rpc = "capture" => still
            /\ rpc \in {"turn", "done"} =>
                  /\ n = reads
                  /\ reads >= iters + 2
                  /\ \A i \in 1..(reads - iters) : cmds[i] = <<0, 0>>
            /\ (rpc = "turn" /\ iters = 0) => start_th = pose[3]
            /\ (rpc \in {"turn", "done"} /\ iters >= 1) =>
                  (error - (target_th - pose[3])) % 628 = 0

\* C15 witness: two settling frames, a start frame with heading 2.5 and a
\* first iteration whose own frame, with another heading, gave error 0.31 and
\* the first turning command.
C15_Witness ==
    /\ maneuver = "turn" /\ rpc = "turn"
    /\ iters = 1 /\ reads = 4
    /\ start_th = 250 /\ target_th = 376
    /\ pose[3] = 345
    /\ error = 31
    /\ cmds = <<(<<0, 0>>), (<<0, 0>>), (<<0, 0>>), (<<0, 60>>)>>

\* ------------------------------------------- the turning loop, robot in it
(***************************************************************************)
(* LiveSpec is the loop of turn_by_angle2 (lines 177-196) together with    *)
(* the robot it steers: every packet sent reaches the robot, and the       *)
(* heading of the next frame is the heading of the last one moved in the   *)
(* direction of the standing angular speed by 0.01 to MaxStep * 0.01 rad   *)
(* (not at all while the robot stands).  It starts where the loop is       *)
(* entered.  The observations kept for RobotSpec (cmds, reads, iters) and  *)
(* the clock grow with every pass and are left out here, so that a loop    *)
(* that never ends is a cycle of states.                                   *)
(***************************************************************************)
\* The largest move between two frames: less than the 0.16 rad between
\* -0.08 and 0.08.
MaxStep == 2 * Converged - 1

LiveStarts == {0, 250, -314}
LiveDeltas == Deltas \cup {-314, 628, 7, -8, 16, -30}

\* The headings the next frame can show.
NextHeadings ==
    IF standing[2] = 0 THEN {pose[3]}
    ELSE {pose[3] + Sgn(standing[2]) * m : m \in 1..MaxStep}

LiveInit ==
    /\ proto = "udp" /\ items = <<>> /\ stream = <<>> /\ closed = FALSE
    /\ dq = 0 /\ pc = "idle" /\ buf = <<>> /\ size = 0 /\ rets = <<>>
    /\ \E h \in LiveStarts, d \in LiveDeltas :
          /\ pose = <<0, 0, h>>
          /\ delta_theta = d /\ start_th = h /\ target_th = h + d
    /\ velocity = <<0, 0, 0>> /\ angular_velocity = <<0, 0, 0>>
    /\ lidar_ranges = <<>> /\ last_update_time = 0 /\ clock = 1
    /\ angle = [k |-> 0, e |-> 0]
    /\ normalized = [k |-> 0, e |-> 0]
    /\ before = [k |-> 0, e |-> 0]
    /\ astep = "arg"
    /\ maneuver = "turn" /\ rpc = "turn" /\ iters = 0
    /\ error = 0 /\ min_dist = 0 /\ cmds = <<>> /\ reads = 0 /\ exc = "none"
    /\ standing = <<0, 0>>

\* One pass of the turning loop on the frame the robot's motion gives; on
\* convergence the final send and return.
turn_step_live ==
    /\ rpc = "turn"
    /\ \E h \in NextHeadings :
          /\ pose' = FrameOf(h, <<0, 0, 0>>, <<>>).pose
          /\ velocity' = FrameOf(h, <<0, 0, 0>>, <<>>).velocity
          /\ angular_velocity' = FrameOf(h, <<0, 0, 0>>, <<>>).angular_velocity
          /\ lidar_ranges' = FrameOf(h, <<0, 0, 0>>, <<>>).lidar_ranges
          /\ \E e \in normalize_angle_c(target_th - h) :
                /\ error' = e
                /\ IF Abs(e) < Converged
                   THEN /\ standing' = <<0, 0>>
                        /\ rpc' = "done"
                   ELSE /\ standing' = <<0, TurnRate(e)>>
                        /\ rpc' = "turn"
    /\ UNCHANGED <<proto, items, stream, closed, dq, pc, buf, size, rets,
                   last_update_time, clock, angleVars>>
    /\ UNCHANGED <<maneuver, iters, delta_theta, start_th, target_th, min_dist, cmds,
                   reads, exc>>

LiveNext == turn_step_live

\* The loop is sequential code and frames keep arriving: a pass that can be
\* made is made.
LiveSpec == LiveInit /\ [][LiveNext]_vars /\ WF_vars(turn_step_live)

\* C16: with frames arriving without error, every command taking effect and
\* the heading moving towards the commanded side by less than 0.16 rad
\* between frames, the turning loop, for every delta_theta, reads a frame
\* within 0.08 rad of the target and returns, the robot standing.
C16_TurnTerminates ==
    <>(/\ rpc = "done"
       /\ standing = <<0, 0>>
       /\ \E r \in {(target_th - pose[3]) % 628} : r < 8 \/ r > 620)

\* C16 witness: a turn by pi from heading 0 has returned, the heading within
\* 0.08 rad of pi.
C16_Witness ==
    /\ rpc = "done"
    /\ start_th = 0 /\ delta_theta = 314
    /\ pose[3] > 306 /\ pose[3] < 322
    /\ standing = <<0, 0>>

\* C17: in datagram mode `items` is what the network delivers, in delivery
\* order (a sent sequence with datagrams dropped, repeated or swapped is one
\* such sequence).  Every call takes exactly one datagram: the i-th call
\* returns the decoding of the i-th datagram delivered, or its error,
\* whatever the calls before it returned; so a datagram delivered twice is
\* returned twice, and after a call that decoded a frame the snapshot is that
\* frame, whichever frame was decoded before it.
C17_DatagramsAsDelivered ==
    proto = "udp" =>
        /\ dq = Len(rets)
        /\ \A i \in 1..Len(rets) :
              /\ ~rets[i].eof
              /\ rets[i].out = DecodeFrame(items[i])
              /\ \A j \in 1..Len(rets) : items[i] = items[j] => rets[i].out = rets[j].out
        /\ (rets # <<>> /\ rets[Len(rets)].out.kind = "ok") =>
              /\ pose = rets[Len(rets)].out.pose
              /\ lidar_ranges = rets[Len(rets)].out.lidar_ranges

\* C17 witness: a frame with samples was delivered twice and returned twice,
\* by two consecutive calls.
C17_Witness ==
    /\ proto = "udp"
    /\ Len(items) = 2 /\ Len(rets) = 2
    /\ items[1] = items[2]
    /\ rets[1].out.kind = "ok" /\ rets[2].out = rets[1].out
    /\ rets[1].out.lidar_ranges # <<>>
    /\ lidar_ranges = rets[2].out.lidar_ranges

\* C18: in stream mode a call that fails with the signature error or the
\* decode error, the connection still open, has read exactly its frame: 4
\* bytes of prefix and the L bytes the prefix declares, counted from where
\* the call before it stopped; the call after it starts at the next prefix,
\* reads exactly the next frame and, when that frame is well formed, returns
\* it.
C18_ErrorKeepsFraming ==
    proto = "tcp" =>
        \A i \in 1..Len(rets) :
            (~rets[i].eof /\ rets[i].out.kind \in {"ValueError", "struct.error"}) =>
                /\ rets[i].rd - (IF i = 1 THEN 0 ELSE rets[i - 1].rd) = 4 + Len(items[i])
                /\ (i < Len(rets) /\ ~rets[i + 1].eof) =>
                      /\ rets[i + 1].rd - rets[i].rd = 4 + Len(items[i + 1])
                      /\ \A f \in TestFrames :
                            items[i + 1] = EncodeFrame(f) =>
                                /\ rets[i + 1].out.kind = "ok"
                                /\ rets[i + 1].out.pose = f.pose
                                /\ rets[i + 1].out.lidar_ranges = f.lidar_ranges

\* C18 witness: a frame a byte short of its samples failed with the decode
\* error, and the call after it returned the well-formed frame that followed.
C18_Witness ==
    /\ proto = "tcp"
    /\ Len(rets) = 2
    /\ rets[1].out.kind = "struct.error" /\ ~rets[1].eof
    /\ Len(items[1]) > 44
    /\ rets[2].out.kind = "ok"
    /\ rets[2].out.lidar_ranges # <<>>
    /\ stream = <<>>

\* C19: at every moment, a call in progress included, the stored pose,
\* velocity, angular velocity and ranges are those of one frame, the frame of
\* the last call that succeeded, and last_update_time is the time of that
\* call, later than that of any call before it; calls that failed, with
\* whichever error, changed none of the five, and before the first success
\* the five are as __init__ set them.
C19_SnapshotOnSuccessOnly ==
    LET oks == {i \in 1..Len(rets) : rets[i].out.kind = "ok"}
    IN  IF oks = {}
        THEN /\ pose = <<0, 0, 0>> /\ velocity = <<0, 0, 0>>
             /\ angular_velocity = <<0, 0, 0>> /\ lidar_ranges = <<>>
             /\ last_update_time = 0
        ELSE LET m == CHOOSE i \in oks : \A j \in oks : j <= i
             IN  /\ pose = rets[m].out.pose
                 /\ velocity = rets[m].out.velocity
                 /\ angular_velocity = rets[m].out.angular_velocity
                 /\ lidar_ranges = rets[m].out.lidar_ranges
                 /\ last_update_time = m
                 /\ last_update_time < clock

\* C19 witness: a frame with samples was stored by the first call, and the
\* second call failed and left it stored, time included.
C19_Witness ==
    /\ Len(rets) = 2
    /\ rets[1].out.kind = "ok"
    /\ rets[2].out.kind \in {"ValueError", "struct.error", "ConnectionError"}
    /\ lidar_ranges # <<>>
    /\ lidar_ranges = rets[1].out.lidar_ranges
    /\ pose = rets[1].out.pose
    /\ last_update_time = 1

\* C20: every packet sent by a maneuver, whatever frames it has read, has a
\* linear speed from 0 to 0.5 m/s, an angular speed that is 0, 0.12, 0.3 or
\* 0.6 rad/s to either side, and one of the two equal to 0: a turn sends only
\* (0, w) and an approach only (v, 0).
C20_CommandEnvelope ==
    \A i \in 1..Len(cmds) :
        /\ 0 <= cmds[i][1] /\ cmds[i][1] <= 600
        /\ cmds[i][2] \in {0, 12, -12, 30, -30, 60, -60}
        /\ cmds[i][1] = 0 \/ cmds[i][2] = 0
        /\ maneuver = "turn" => cmds[i][1] = 0
        /\ maneuver = "forward" => cmds[i][2] = 0
        /\ maneuver \in {"turn", "forward"}

\* C20 witness: an approach sent full speed, then the lowest speed of the
\* ramp (0.41 m), then the stop and its thirty repeats.
C20_Witness ==
    /\ maneuver = "forward" /\ rpc = "done"
    /\ Len(cmds) = 33
    /\ cmds[1] = <<600, 0>>
    /\ cmds[2] = <<10, 0>>
    /\ cmds[3] = <<0, 0>>

====
